---- MODULE Spec2Model ----
(***************************************************************************)
(* Realtime sync service (packages/core/src/realtime-sync/service.ts) and  *)
(* the interval cache (packages/core/src/database/cache/sqliteCacheStore.ts)*)
(* of ponder, as a state machine.                                          *)
(*                                                                         *)
(* The JSON-RPC endpoint is an environment: a tree of immutable blocks     *)
(* (a main chain and one fork) of which the endpoint follows one tip.      *)
(* A block task runs from one suspension point (await) to the next in one  *)
(* step; poll ticks and changes of the endpoint interleave between steps.  *)
(***************************************************************************)
EXTENDS Integers, Sequences, FiniteSets, TLC

\* ------------------------------------------------------------------ bounds
MaxNumber == 4          \* highest block number the endpoint ever serves
MaxFinality == 1        \* largest configured network.finalityBlockCount
MaxQueue == 1           \* poll ticks stop adding once this many tasks are pending
MaxFailures == 1        \* failed RPC requests / Event Store calls per run
MaxIntervalBlock == 3   \* highest block number of an arbitrary cached range
MaxEndBlock == 1          \* highest endBlock of a log filter
MaxIntervalStamp == 2   \* timestamps of arbitrary cached ranges are 1..this

\* Number.MAX_SAFE_INTEGER (2^53 - 1); the model's integers are 32 bit wide,
\* and only the order of priorities is used.
MAX_SAFE_INTEGER == 2147483647

NoHash == -1            \* parentHash of the genesis block, "no such block"
NoEndBlock == -1        \* filter.endBlock === undefined

VARIABLES
    phase,                  \* "constructed" | "setup" | "started" | "stopped" | "killed"
    finalityBlockCount,     \* network.finalityBlockCount
    finalizedBlockNumber,   \* this.finalizedBlockNumber
    blocks,                 \* this.blocks: the local chain (light blocks)
    queue,                  \* pending block tasks, in insertion order
    pc,                     \* where the block task worker is suspended
    task,                   \* hash of the block of the executing task
    missingBlocks,          \* gap fill: blocks fetched so far
    canonicalBlocks,        \* reorg: canonicalBlocksWithTransactions
    depth,                  \* reorg: depth
    commonAncestorBlock,    \* reorg: the common ancestor found
    newFinalizedBlock,      \* finality advance: newFinalizedBlock
    filteredLogs,           \* extend: the matched logs awaiting insertion
    storeBlocks,            \* Event Store table blocks
    storeTransactions,      \* Event Store table transactions
    storeLogs,              \* Event Store table logs
    cachedIntervals,        \* Event Store table cachedIntervals
    rpcHead,                \* the tip the endpoint currently follows
    forkAt,                 \* number of the last block shared by both chains
    emitted,                \* events emitted by the current (or last) task
    calls,                  \* Event Store calls issued by the current (or last) task
    case,                   \* classification of the current (or last) task
    blocks0,                \* this.blocks when the task was dequeued
    finalized0,             \* this.finalizedBlockNumber when the task was dequeued
    gapBatch,               \* blocks of the last gap fill still to be accepted
    gapOnChain,             \* every task pending or added since is on that batch's chain
    failures,               \* failed requests so far
    logFilterEndBlocks,     \* filter.endBlock of each log filter (NoEndBlock: undefined)
    setupResult,            \* what setup() returned, until start() is called
    pollInFlight            \* kill() came while a poll was fetching the latest block

\* What only the constructor, setup(), start() and kill() write.
ctlVars == <<finalityBlockCount, logFilterEndBlocks, setupResult, pollInFlight>>
svcVars == <<phase, ctlVars, finalizedBlockNumber, blocks, queue>>
workerVars == <<pc, task, missingBlocks, canonicalBlocks, depth,
                commonAncestorBlock, newFinalizedBlock, filteredLogs>>
blockTables == <<storeBlocks, storeTransactions, storeLogs>>
storeVars == <<storeBlocks, storeTransactions, storeLogs, cachedIntervals>>
rpcVars == <<rpcHead, forkAt>>
histVars == <<emitted, calls, case, blocks0, finalized0>>
gapVars == <<gapBatch, gapOnChain>>
vars == <<svcVars, workerVars, storeVars, rpcVars, histVars, gapVars, failures>>

\* ------------------------------------------------------------ the endpoint
\* A hash names a block: chain * (MaxNumber + 1) + number, chain 0 the main
\* chain and chain 1 the fork that leaves it after block forkAt.
HashOf(chain, n) == chain * (MaxNumber + 1) + n
NumberOf(h) == h % (MaxNumber + 1)
ChainOf(h) == h \div (MaxNumber + 1)
Hashes == {HashOf(0, n) : n \in 0..MaxNumber}
            \cup {HashOf(1, n) : n \in (forkAt + 1)..MaxNumber}

ParentHashOf(h) ==
    IF NumberOf(h) = 0 THEN NoHash
    ELSE IF ChainOf(h) = 1 /\ NumberOf(h) = forkAt + 1 THEN HashOf(0, forkAt)
    ELSE h - 1

TimestampOf(h) == 2 * NumberOf(h) + ChainOf(h)

\* What a block holds depends on its hash only: no logs at all; logs that set
\* the filter's address and topic in the bloom without any log matching (a
\* false positive); or one matched and one unmatched log.
ContentOf(h) == (NumberOf(h) + ChainOf(h)) % 3

TransactionsOf(h) ==
    IF ContentOf(h) = 0 THEN <<>>
    ELSE << [hash |-> <<h, 0>>, blockHash |-> h, blockNumber |-> NumberOf(h),
             transactionIndex |-> 0],
            [hash |-> <<h, 1>>, blockHash |-> h, blockNumber |-> NumberOf(h),
             transactionIndex |-> 1] >>

RpcLog(h, i, addr, topic) ==
    [logId |-> <<h, i>>, address |-> addr, topics |-> <<topic>>,
     blockHash |-> h, blockNumber |-> NumberOf(h), logIndex |-> i,
     transactionHash |-> <<h, i>>, transactionIndex |-> i]

\* eth_getLogs({blockHash: h})
LogsOf(h) ==
    IF ContentOf(h) = 0 THEN <<>>
    ELSE IF ContentOf(h) = 1
         THEN << RpcLog(h, 0, "A", "U"), RpcLog(h, 1, "Z", "T") >>
         ELSE << RpcLog(h, 0, "Z", "U"), RpcLog(h, 1, "A", "T") >>

\* The logs bloom of a block: the addresses and topics of its logs.
LogsBloomOf(h) ==
    {LogsOf(h)[i].address : i \in 1..Len(LogsOf(h))}
        \cup {LogsOf(h)[i].topics[1] : i \in 1..Len(LogsOf(h))}

\* A block as eth_getBlockByNumber / eth_getBlockByHash return it (withTxns).
RpcBlock(h) ==
    [hash |-> h, number |-> NumberOf(h), parentHash |-> ParentHashOf(h),
     timestamp |-> TimestampOf(h), logsBloom |-> LogsBloomOf(h),
     transactions |-> TransactionsOf(h)]

RECURSIVE AncestorAt(_, _)
\* The block numbered n on the chain that ends in h (NoHash above the tip).
AncestorAt(h, n) ==
    IF h = NoHash \/ NumberOf(h) < n THEN NoHash
    ELSE IF NumberOf(h) = n THEN h
    ELSE AncestorAt(ParentHashOf(h), n)

\* The block x is an ancestor or a descendant of the block b, or b itself.
OnChainOf(x, b) ==
    IF NumberOf(x) <= NumberOf(b) THEN AncestorAt(b, NumberOf(x)) = x
    ELSE AncestorAt(x, NumberOf(b)) = b

\* eth_getBlockByNumber(n): the endpoint's current view.
BlockByNumber(n) == AncestorAt(rpcHead, n)

\* eth_getBlockByNumber("latest"): the tip, or a stale block of the same chain
\* (a lagging node behind the endpoint).
LatestCandidates == {AncestorAt(rpcHead, n) : n \in 0..NumberOf(rpcHead)}

\* ---------------------------------------------------------- configuration
NullTopic == {}         \* a topic position that accepts any value

LogFilters ==
    << [key |-> "k1", address |-> "A", topics |-> << {"T"} >>],
       [key |-> "k2", address |-> "B", topics |-> << NullTopic >>] >>

\* No log filter has an endBlock: every filter follows the chain.
NoEndBlocks == [i \in 1..Len(LogFilters) |-> NoEndBlock]

LogFilterKeys == {LogFilters[i].key : i \in 1..Len(LogFilters)}

\* ------------------------------------------------------------ pure helpers
NullBlock == [hash |-> NoHash, number |-> -1, parentHash |-> NoHash, timestamp |-> -1]

rpcBlockToLightBlock(b) ==
    [hash |-> b.hash, number |-> b.number, parentHash |-> b.parentHash,
     timestamp |-> b.timestamp]

LightBlock(h) == rpcBlockToLightBlock(RpcBlock(h))

\* As FindByHash, looking at the head of the chain only.
FindByHashAtHead(chain, h) ==
    IF chain # <<>> /\ chain[Len(chain)].hash = h THEN chain[Len(chain)] ELSE NullBlock

\* Array.prototype.find on the local chain, by hash / by number.
FindByHash(chain, h) ==
    LET idx == {i \in 1..Len(chain) : chain[i].hash = h}
    IN  IF idx = {} THEN NullBlock
        ELSE chain[CHOOSE i \in idx : \A j \in idx : i <= j]

FindByNumber(chain, n) ==
    LET idx == {i \in 1..Len(chain) : chain[i].number = n}
    IN  IF idx = {} THEN NullBlock
        ELSE chain[CHOOSE i \in idx : \A j \in idx : i <= j]

\* Bloom pre-filter: some filter whose address and, for every constrained
\* topic position, one allowed value are in the bloom.
isMatchedLogInBloomFilter(bloom, logFilters) ==
    \E i \in 1..Len(logFilters) :
        /\ logFilters[i].address \in bloom
        /\ \A p \in 1..Len(logFilters[i].topics) :
              \/ logFilters[i].topics[p] = NullTopic
              \/ logFilters[i].topics[p] \cap bloom # {}

LogMatches(log, f) ==
    /\ log.address = f.address
    /\ \A p \in 1..Len(f.topics) :
          \/ f.topics[p] = NullTopic
          \/ (p <= Len(log.topics) /\ log.topics[p] \in f.topics[p])

\* Log filter: the logs matching some filter, in input order.
filterLogs(logs, logFilters) ==
    SelectSeq(logs, LAMBDA l : \E i \in 1..Len(logFilters) : LogMatches(l, logFilters[i]))

SeqToSet(s) == {s[i] : i \in 1..Len(s)}

\* -------------------------------------------------------------- Event Store
NoTimestamp == -1       \* SQL NULL in logs.blockTimestamp

\* The realtime tables as one value.
Tables == [blocks |-> storeBlocks, transactions |-> storeTransactions, logs |-> storeLogs]

encodeLog(log) ==
    [logId |-> log.logId, address |-> log.address, topic0 |-> log.topics[1],
     blockHash |-> log.blockHash, blockNumber |-> log.blockNumber,
     blockTimestamp |-> NoTimestamp, logIndex |-> log.logIndex,
     transactionHash |-> log.transactionHash]

encodeBlock(block) ==
    [hash |-> block.hash, number |-> block.number, timestamp |-> block.timestamp,
     parentHash |-> block.parentHash]

\* INSERT ... ON CONFLICT("logId") DO NOTHING, for each log; the statement
\* names no blockTimestamp, which is left NULL.
insertLogs(db, logs) ==
    [db EXCEPT !.logs = @ \cup
        {encodeLog(logs[i]) : i \in {j \in 1..Len(logs) :
            \A r \in db.logs : r.logId # logs[j].logId}}]

\* As insertBlock, without the UPDATE of the logs' blockTimestamp.
insertBlockNoBackfill(db, block) ==
    [db EXCEPT !.blocks =
        IF \E r \in db.blocks : r.hash = block.hash THEN @
        ELSE @ \cup {encodeBlock(block)}]

\* INSERT ... ON CONFLICT("hash") DO NOTHING, then UPDATE logs SET
\* blockTimestamp WHERE blockHash = block.hash.
insertBlock(db, block) ==
    [db EXCEPT
        !.blocks = IF \E r \in db.blocks : r.hash = block.hash THEN @
                   ELSE @ \cup {encodeBlock(block)},
        !.logs = {IF r.blockHash = block.hash
                  THEN [r EXCEPT !.blockTimestamp = block.timestamp]
                  ELSE r : r \in db.logs}]

\* INSERT ... ON CONFLICT(hash) DO NOTHING, for each transaction.
insertTransactions(db, transactions) ==
    [db EXCEPT !.transactions = @ \cup
        {transactions[i] : i \in {j \in 1..Len(transactions) :
            \A r \in db.transactions : r.hash # transactions[j].hash}}]

\* One transaction: the block row, the transactions, the logs, and the
\* blockTimestamp of the log rows of that block.
insertRealtimeBlock(db, block, transactions, logs) ==
    insertBlock(insertLogs(insertTransactions(db, transactions), logs), block)

\* As deleteRealtimeData, whatever the block number.
deleteRealtimeDataAll(db, fromBlockNumber) ==
    [blocks |-> {}, transactions |-> {}, logs |-> {}]

\* One transaction: every log, transaction and block numbered >= fromBlockNumber.
deleteRealtimeData(db, fromBlockNumber) ==
    [blocks |-> {r \in db.blocks : r.number < fromBlockNumber},
     transactions |-> {r \in db.transactions : r.blockNumber < fromBlockNumber},
     logs |-> {r \in db.logs : r.blockNumber < fromBlockNumber}]

\* ------------------------------------------------------------ interval cache
Max2(a, b) == IF a >= b THEN a ELSE b
Min2(a, b) == IF a <= b THEN a ELSE b

\* Two ranges <<a, b>>, <<c, d>> that overlap or touch.
Mergeable(x, y) == Max2(x[1], y[1]) <= Min2(x[2], y[2]) + 1

RECURSIVE merge_intervals(_)
\* Combine overlapping or adjacent ranges until none is left.
merge_intervals(ranges) ==
    IF \E x, y \in ranges : x # y /\ Mergeable(x, y)
    THEN LET p == CHOOSE p \in ranges \X ranges : p[1] # p[2] /\ Mergeable(p[1], p[2])
         IN  merge_intervals((ranges \ {p[1], p[2]})
                 \cup {<<Min2(p[1][1], p[2][1]), Max2(p[1][2], p[2][2])>>})
    ELSE ranges

\* As EndBlockSources, the new interval taken for every merged interval.
EndBlockSourcesNewOnly(existing, newInterval, endBlock) == {newInterval}

\* [newInterval, ...existingIntervals].find((old) => old.endBlock === endBlock)
EndBlockSources(existing, newInterval, endBlock) ==
    IF newInterval.endBlock = endBlock THEN {newInterval}
    ELSE {r \in existing : r.endBlock = endBlock}

\* As MergedRanges, the new interval left out of the merge.
MergedRangesWithoutNew(existing, newInterval) ==
    merge_intervals({<<r.startBlock, r.endBlock>> : r \in existing})

\* merge_intervals([...existingIntervals ranges, the new interval's range])
MergedRanges(existing, newInterval) ==
    merge_intervals({<<r.startBlock, r.endBlock>> : r \in existing}
                      \cup {<<newInterval.startBlock, newInterval.endBlock>>})

\* The rows insertIntervalTxn inserts for the contract when rows existed.
MergedRows(existing, newInterval) ==
    {[contractAddress |-> newInterval.contractAddress,
      startBlock |-> m[1], endBlock |-> m[2],
      endBlockTimestamp |->
          (CHOOSE r \in EndBlockSources(existing, newInterval, m[2]) : TRUE).endBlockTimestamp]
     : m \in MergedRanges(existing, newInterval)}

\* "Old interval with endBlock not found": the transaction throws.
insertCachedIntervalThrows(table, interval) ==
    LET existing == {r \in table : r.contractAddress = interval.contractAddress}
    IN  /\ existing # {}
        /\ \E m \in MergedRanges(existing, interval) :
              EndBlockSources(existing, interval, m[2]) = {}

\* As insertCachedInterval, the new row added without any merge.
insertCachedIntervalNoMerge(table, interval) == table \cup {interval}

\* As insertCachedInterval, without the DELETE of the contract's rows.
insertCachedIntervalNoDelete(table, interval) ==
    LET existing == {r \in table : r.contractAddress = interval.contractAddress}
    IN  IF existing = {} THEN table \cup {interval}
        ELSE IF insertCachedIntervalThrows(table, interval) THEN table
        ELSE table \cup MergedRows(existing, interval)

\* The table after insertCachedInterval(interval); a transaction that throws is
\* rolled back and leaves the table as it was.
insertCachedInterval(table, interval) ==
    LET existing == {r \in table : r.contractAddress = interval.contractAddress}
        rest == table \ existing
    IN  IF existing = {} THEN rest \cup {interval}
        ELSE IF insertCachedIntervalThrows(table, interval) THEN table
        ELSE rest \cup MergedRows(existing, interval)

CachedRange(key, startBlock, endBlock, endBlockTimestamp) ==
    [contractAddress |-> key, startBlock |-> startBlock, endBlock |-> endBlock,
     endBlockTimestamp |-> endBlockTimestamp]

insertLogFilterCachedRangesThrows(table, logFilterKeys, startBlock, endBlock, endBlockTimestamp) ==
    \E key \in logFilterKeys :
        insertCachedIntervalThrows(table, CachedRange(key, startBlock, endBlock, endBlockTimestamp))

RECURSIVE insertLogFilterCachedRanges(_, _, _, _, _)
\* The interval-merge write for each key, in one transaction.
insertLogFilterCachedRanges(table, logFilterKeys, startBlock, endBlock, endBlockTimestamp) ==
    IF logFilterKeys = {} THEN table
    ELSE LET key == CHOOSE key \in logFilterKeys : TRUE
         IN  insertLogFilterCachedRanges(
                 insertCachedInterval(table,
                     CachedRange(key, startBlock, endBlock, endBlockTimestamp)),
                 logFilterKeys \ {key}, startBlock, endBlock, endBlockTimestamp)

\* -------------------------------------------------------------- task queue
\* As priority, the higher block number served first.
priorityHighestFirst(h) == NumberOf(h)

\* Number.MAX_SAFE_INTEGER - number: the lower block number is served first.
priority(h) == MAX_SAFE_INTEGER - NumberOf(h)

addTask(q, h) == Append(q, h)

\* As NextTaskIndex, first in first out whatever the priority.
NextTaskIndexFifo(q) == 1

\* The pending task the single worker takes next: highest priority, first in
\* among equals.
NextTaskIndex(q) ==
    CHOOSE i \in 1..Len(q) : \A j \in 1..Len(q) :
        \/ priority(q[j]) < priority(q[i])
        \/ (priority(q[j]) = priority(q[i]) /\ i <= j)

RemoveAt(q, i) == SubSeq(q, 1, i - 1) \o SubSeq(q, i + 1, Len(q))

NextTask == queue[NextTaskIndex(queue)]
PendingAfterNext == RemoveAt(queue, NextTaskIndex(queue))

\* ------------------------------------------------------------------ events
\* As RealtimeCheckpoint, carrying the block number (timestamps are 2 * number
\* + chain) instead of the timestamp.
RealtimeCheckpointNumber(t) == [type |-> "realtimeCheckpoint", timestamp |-> t \div 2]

RealtimeCheckpoint(t) == [type |-> "realtimeCheckpoint", timestamp |-> t]
FinalityCheckpoint(t) == [type |-> "finalityCheckpoint", timestamp |-> t]
ShallowReorg(t) == [type |-> "shallowReorg", commonAncestorTimestamp |-> t]
\* As DeepReorg, the two fields exchanged.
DeepReorgSwapped(n, d) == [type |-> "deepReorg", detectedAtBlockNumber |-> d, minimumDepth |-> n]

DeepReorg(n, d) == [type |-> "deepReorg", detectedAtBlockNumber |-> n, minimumDepth |-> d]
ErrorEvent == [type |-> "error"]

\* Event Store calls a task issues.
InsertRealtimeBlockCall(h, txs, logs) ==
    [op |-> "insertRealtimeBlock", block |-> h, transactions |-> txs, logs |-> logs]
InsertRangesCall(keys, s, e, t) ==
    [op |-> "insertLogFilterCachedRanges", logFilterKeys |-> keys, startBlock |-> s,
     endBlock |-> e, endBlockTimestamp |-> t]
DeleteRealtimeDataCall(n) == [op |-> "deleteRealtimeData", fromBlockNumber |-> n]
InsertCachedIntervalCall(interval) == [op |-> "insertCachedInterval", interval |-> interval]

\* ------------------------------------------------------------------- setup
NoResult == [latestBlockNumber |-> -1, finalizedBlockNumber |-> -1]

\* As SetupResult, the two numbers exchanged.
SetupResultSwapped(latestBlockNumber, finalized) ==
    [latestBlockNumber |-> finalized, finalizedBlockNumber |-> latestBlockNumber]

\* return { latestBlockNumber, finalizedBlockNumber }
SetupResult(latestBlockNumber, finalized) ==
    [latestBlockNumber |-> latestBlockNumber, finalizedBlockNumber |-> finalized]

\* The service as constructed, whatever the log filters' end blocks.
\* Everything but the network's finalityBlockCount.
InitState ==
    /\ phase = "constructed"
    /\ finalizedBlockNumber = 0
    /\ blocks = <<>>
    /\ queue = <<>>
    /\ pc = "idle"
    /\ task = NoHash
    /\ missingBlocks = <<>>
    /\ canonicalBlocks = <<>>
    /\ depth = 0
    /\ commonAncestorBlock = NullBlock
    /\ newFinalizedBlock = NullBlock
    /\ filteredLogs = <<>>
    /\ storeBlocks = {}
    /\ storeTransactions = {}
    /\ storeLogs = {}
    /\ cachedIntervals = {}
    /\ forkAt \in 0..(MaxNumber - 1)
    /\ rpcHead \in Hashes
    /\ emitted = <<>>
    /\ calls = <<>>
    /\ case = "none"
    /\ blocks0 = <<>>
    /\ finalized0 = 0
    /\ gapBatch = <<>>
    /\ gapOnChain = FALSE
    /\ failures = 0
    /\ setupResult = NoResult
    /\ pollInFlight = FALSE

InitService == finalityBlockCount \in 1..MaxFinality /\ InitState

Init == InitService /\ logFilterEndBlocks = NoEndBlocks

\* As SetupFinalizedBlockNumber, without the clamp at zero.
SetupFinalizedBlockNumberNoClamp(latestBlockNumber) ==
    latestBlockNumber - finalityBlockCount

\* Math.max(0, latestBlockNumber - this.network.finalityBlockCount)
SetupFinalizedBlockNumber(latestBlockNumber) ==
    Max2(0, latestBlockNumber - finalityBlockCount)

\* setup(): fetch the latest block, set the finalized block number, add the
\* latest block to the (not yet started) queue.
Setup ==
    /\ phase = "constructed"
    /\ \E latestBlock \in LatestCandidates :
          /\ finalizedBlockNumber' = SetupFinalizedBlockNumber(NumberOf(latestBlock))
          /\ queue' = addTask(queue, latestBlock)
          /\ setupResult' = SetupResult(NumberOf(latestBlock),
                                        SetupFinalizedBlockNumber(NumberOf(latestBlock)))
    /\ phase' = "setup"
    /\ UNCHANGED <<finalityBlockCount, logFilterEndBlocks, pollInFlight, blocks,
                   workerVars, storeVars, rpcVars,
                   histVars, gapVars, failures>>

\* As NoRealtimeLogFilters, with <= for <.
NoRealtimeLogFiltersAtOrBelow ==
    \A i \in 1..Len(LogFilters) :
        logFilterEndBlocks[i] # NoEndBlock /\ logFilterEndBlocks[i] <= finalizedBlockNumber

\* endBlocks.every((endBlock) => endBlock !== undefined && endBlock < finalized)
NoRealtimeLogFilters ==
    \A i \in 1..Len(LogFilters) :
        logFilterEndBlocks[i] # NoEndBlock /\ logFilterEndBlocks[i] < finalizedBlockNumber

\* start(): seed the local chain with the block at finalizedBlockNumber, start
\* the queue and the poller.
Start ==
    /\ phase = "setup"
    /\ IF NoRealtimeLogFilters
       THEN /\ phase' = "stopped"
            /\ UNCHANGED blocks
       ELSE /\ Len(queue) # 0
            /\ BlockByNumber(finalizedBlockNumber) # NoHash
            /\ blocks' = Append(blocks, LightBlock(BlockByNumber(finalizedBlockNumber)))
            /\ phase' = "started"
    /\ setupResult' = NoResult
    /\ UNCHANGED <<finalityBlockCount, logFilterEndBlocks, pollInFlight,
                   finalizedBlockNumber, queue, workerVars,
                   storeVars, rpcVars, histVars, gapVars, failures>>

\* A poll tick: addNewLatestBlock().
PollTick ==
    /\ phase = "started"
    /\ Len(queue) < MaxQueue
    /\ \E block \in LatestCandidates :
          /\ queue' = addTask(queue, block)
          /\ gapOnChain' = (gapOnChain /\ gapBatch # <<>>
                               /\ OnChainOf(block, gapBatch[Len(gapBatch)]))
    /\ UNCHANGED <<phase, ctlVars, finalizedBlockNumber, blocks,
                   workerVars, storeVars, rpcVars, histVars, gapBatch, failures>>

\* The endpoint moves to another tip: the chain grows, or it switches chains.
RpcAdvance ==
    /\ \E h \in Hashes :
          /\ h # rpcHead
          /\ NumberOf(h) >= NumberOf(rpcHead)
          /\ rpcHead' = h
    /\ UNCHANGED <<svcVars, workerVars, storeVars, forkAt, histVars, gapVars, failures>>

\* ------------------------------------------------------- block task worker
previousHeadBlock == blocks[Len(blocks)]

\* As IsNewHead, without the comparison of the parent hash.
IsNewHeadByNumberOnly(newBlock) ==
    newBlock.number = previousHeadBlock.number + 1

\* newBlock.number == previousHeadBlock.number + 1 &&
\* newBlock.parentHash == previousHeadBlock.hash
IsNewHead(newBlock) ==
    /\ newBlock.number = previousHeadBlock.number + 1
    /\ newBlock.parentHash = previousHeadBlock.hash

\* As Classify, with >= for > in the test for missing blocks.
ClassifyGapAtNext(newBlock) ==
    IF FindByHash(blocks, newBlock.hash) # NullBlock THEN "duplicate"
    ELSE IF IsNewHead(newBlock) THEN "newHead"
    ELSE IF newBlock.number >= previousHeadBlock.number + 1 THEN "gap"
    ELSE "reorg"

\* The case blockTaskWorker takes for a dequeued block.
Classify(newBlock) ==
    IF FindByHash(blocks, newBlock.hash) # NullBlock THEN "duplicate"
    ELSE IF IsNewHead(newBlock) THEN "newHead"
    ELSE IF newBlock.number > previousHeadBlock.number + 1 THEN "gap"
    ELSE "reorg"

\* As Dequeue, with a worker that takes a task while another is suspended.
DequeueConcurrently(h, c) ==
    /\ phase = "started"
    /\ queue # <<>>
    /\ h = NextTask
    /\ Classify(LightBlock(h)) = c
    /\ task' = h
    /\ case' = c
    /\ blocks0' = blocks
    /\ finalized0' = finalizedBlockNumber
    /\ missingBlocks' = <<>>
    /\ filteredLogs' = <<>>

\* The worker takes the next task h of case c: what every task records first.
Dequeue(h, c) ==
    /\ phase = "started"
    /\ pc = "idle"
    /\ queue # <<>>
    /\ h = NextTask
    /\ Classify(LightBlock(h)) = c
    /\ task' = h
    /\ case' = c
    /\ blocks0' = blocks
    /\ finalized0' = finalizedBlockNumber
    /\ missingBlocks' = <<>>
    /\ filteredLogs' = <<>>

\* History of the last gap fill. The batch stops being tracked when one of its
\* blocks is taken out of turn or is not the new head when taken.
GapAfterDequeue(h, c) ==
    IF gapBatch # <<>> /\ h \in SeqToSet(gapBatch)
                       /\ ~(h = Head(gapBatch) /\ c = "newHead")
    THEN <<>> ELSE gapBatch

\* The block h was appended to the local chain.
GapAfterAccept(h) ==
    IF gapBatch # <<>> /\ h = Head(gapBatch) THEN Tail(gapBatch)
    ELSE IF h \in SeqToSet(gapBatch) THEN <<>>
    ELSE gapBatch

GapOnChainAfterDequeue == gapBatch # <<>> /\ gapOnChain

\* The worker threw: the queue's onError hook emits "error"; no retry.
Throw ==
    /\ pc' = "idle"
    /\ emitted' = Append(emitted, ErrorEvent)

\* An RPC request or Event Store call fails.
Fail(at) ==
    /\ pc = at
    /\ failures < MaxFailures
    /\ failures' = failures + 1
    /\ gapBatch' = <<>>
    /\ gapOnChain' = FALSE
    /\ Throw

\* 1) The block is already in the local chain: no-op.
TaskDuplicate ==
    /\ \E h \in Hashes : Dequeue(h, "duplicate")
    /\ queue' = PendingAfterNext
    /\ emitted' = <<>>
    /\ calls' = <<>>
    /\ canonicalBlocks' = <<>>
    /\ depth' = 0
    /\ commonAncestorBlock' = NullBlock
    /\ newFinalizedBlock' = NullBlock
    /\ gapBatch' = GapAfterDequeue(task', "duplicate")
    /\ gapOnChain' = GapOnChainAfterDequeue
    /\ UNCHANGED <<phase, ctlVars, finalizedBlockNumber, blocks, pc,
                   storeVars, rpcVars, failures>>

\* As MovesFinality, with >= for >.
MovesFinalityAtEqual(newBlock) ==
    newBlock.number >= finalizedBlockNumber + 2 * finalityBlockCount

\* newBlock.number > this.finalizedBlockNumber + 2 * this.network.finalityBlockCount
MovesFinality(newBlock) ==
    newBlock.number > finalizedBlockNumber + 2 * finalityBlockCount

\* As FinalityRangeEnd: the new head instead of the new finalized block.
FinalityRangeEndAtHead(chain, nf) == chain[Len(chain)].number

\* endBlock of the cached range written on a finality advance.
FinalityRangeEnd(chain, nf) == nf.number

\* Lines 351-434: emit realtimeCheckpoint, append the block, and when it moves
\* the finality checkpoint prune the local chain and issue the cached-range
\* write. em, cl: the events and calls of this task so far.
ExtendTail(h, em, cl) ==
    LET newBlock == LightBlock(h)
        pushed == Append(blocks, newBlock)
        em1 == Append(em, RealtimeCheckpoint(RpcBlock(h).timestamp))
        nf == FindByNumber(pushed, finalizedBlockNumber + finalityBlockCount)
    IN  /\ gapBatch' = GapAfterAccept(h)
        /\ IF MovesFinality(newBlock)
           THEN IF nf = NullBlock
                THEN \* newFinalizedBlock is undefined: TypeError in the filter
                     /\ blocks' = pushed
                     /\ newFinalizedBlock' = NullBlock
                     /\ pc' = "idle"
                     /\ emitted' = Append(em1, ErrorEvent)
                     /\ calls' = cl
                ELSE /\ blocks' = SelectSeq(pushed, LAMBDA b : b.number >= nf.number)
                     /\ newFinalizedBlock' = nf
                     /\ pc' = "insertLogFilterCachedRanges"
                     /\ emitted' = em1
                     /\ calls' = Append(cl, InsertRangesCall(LogFilterKeys,
                                       finalizedBlockNumber + 1, FinalityRangeEnd(pushed, nf),
                                       nf.timestamp))
           ELSE /\ blocks' = pushed
                /\ newFinalizedBlock' = NullBlock
                /\ pc' = "idle"
                /\ emitted' = em1
                /\ calls' = cl

\* 2) The block is the new head: bloom pre-filter, then either fetch its logs
\* or go on without.
TaskNewHead ==
    /\ \E h \in Hashes :
          /\ Dequeue(h, "newHead")
          /\ IF isMatchedLogInBloomFilter(RpcBlock(h).logsBloom, LogFilters)
             THEN /\ pc' = "getLogs"
                  /\ emitted' = <<>>
                  /\ calls' = <<>>
                  /\ newFinalizedBlock' = NullBlock
                  /\ gapBatch' = GapAfterDequeue(h, "newHead")
                  /\ UNCHANGED blocks
             ELSE ExtendTail(h, <<>>, <<>>)
    /\ gapOnChain' = GapOnChainAfterDequeue
    /\ queue' = PendingAfterNext
    /\ canonicalBlocks' = <<>>
    /\ depth' = 0
    /\ commonAncestorBlock' = NullBlock
    /\ UNCHANGED <<phase, ctlVars, finalizedBlockNumber, storeVars,
                   rpcVars, failures>>

\* As FilteredTransactions, keeping every transaction of the block.
FilteredTransactionsAll(h, logs) == RpcBlock(h).transactions

\* newBlockWithTransactions.transactions.filter((t) => requiredTransactionHashes.has(t.hash))
FilteredTransactions(h, logs) ==
    SelectSeq(RpcBlock(h).transactions,
              LAMBDA t : \E i \in 1..Len(logs) : logs[i].transactionHash = t.hash)

\* eth_getLogs returned: filter the logs; insert the block when any matched.
GetLogsReturn ==
    /\ pc = "getLogs"
    /\ LET matched == filterLogs(LogsOf(task), LogFilters)
       IN  IF Len(matched) > 0
           THEN /\ filteredLogs' = matched
                /\ pc' = "insertRealtimeBlock"
                /\ calls' = Append(calls, InsertRealtimeBlockCall(task,
                                  FilteredTransactions(task, matched), matched))
                /\ UNCHANGED <<blocks, newFinalizedBlock, emitted, gapBatch>>
           ELSE /\ ExtendTail(task, emitted, calls)
                /\ UNCHANGED filteredLogs
    /\ UNCHANGED <<phase, ctlVars, finalizedBlockNumber, queue, task,
                   missingBlocks, canonicalBlocks, depth, commonAncestorBlock,
                   storeVars, rpcVars, case, blocks0, finalized0, gapOnChain,
                   failures>>

GetLogsFail ==
    /\ Fail("getLogs")
    /\ UNCHANGED <<svcVars, task, missingBlocks, canonicalBlocks, depth,
                   commonAncestorBlock, newFinalizedBlock, filteredLogs, storeVars,
                   rpcVars, calls, case, blocks0, finalized0>>

\* insertRealtimeBlock returned.
InsertRealtimeBlockReturn ==
    /\ pc = "insertRealtimeBlock"
    /\ LET db == insertRealtimeBlock(Tables, RpcBlock(task),
                     FilteredTransactions(task, filteredLogs), filteredLogs)
       IN  /\ storeBlocks' = db.blocks
           /\ storeTransactions' = db.transactions
           /\ storeLogs' = db.logs
    /\ ExtendTail(task, emitted, calls)
    /\ UNCHANGED <<phase, ctlVars, finalizedBlockNumber, queue, task,
                   missingBlocks, canonicalBlocks, depth, commonAncestorBlock,
                   filteredLogs, cachedIntervals, rpcVars, case, blocks0, finalized0,
                   gapOnChain, failures>>

InsertRealtimeBlockFail ==
    /\ Fail("insertRealtimeBlock")
    /\ UNCHANGED <<svcVars, task, missingBlocks, canonicalBlocks, depth,
                   commonAncestorBlock, newFinalizedBlock, filteredLogs, storeVars,
                   rpcVars, calls, case, blocks0, finalized0>>

\* insertLogFilterCachedRanges returned: set the finalized block number and
\* emit finalityCheckpoint.
InsertRangesReturn ==
    /\ pc = "insertLogFilterCachedRanges"
    /\ LET call == calls[Len(calls)]
       IN  IF insertLogFilterCachedRangesThrows(cachedIntervals, call.logFilterKeys,
                  call.startBlock, call.endBlock, call.endBlockTimestamp)
           THEN /\ Throw
                /\ UNCHANGED <<cachedIntervals, finalizedBlockNumber>>
           ELSE /\ cachedIntervals' = insertLogFilterCachedRanges(cachedIntervals,
                        call.logFilterKeys, call.startBlock, call.endBlock,
                        call.endBlockTimestamp)
                /\ finalizedBlockNumber' = newFinalizedBlock.number
                /\ emitted' = Append(emitted, FinalityCheckpoint(newFinalizedBlock.timestamp))
                /\ pc' = "idle"
    /\ UNCHANGED <<phase, ctlVars, blocks, queue, task, missingBlocks,
                   canonicalBlocks, depth, commonAncestorBlock, newFinalizedBlock,
                   filteredLogs, blockTables, rpcVars, calls, case, blocks0,
                   finalized0, gapVars, failures>>

InsertRangesFail ==
    /\ Fail("insertLogFilterCachedRanges")
    /\ UNCHANGED <<svcVars, task, missingBlocks, canonicalBlocks, depth,
                   commonAncestorBlock, newFinalizedBlock, filteredLogs, storeVars,
                   rpcVars, calls, case, blocks0, finalized0>>

\* 3) At least one block is missing: fetch the missing blocks by number.
TaskGap ==
    /\ \E h \in Hashes : Dequeue(h, "gap")
    /\ queue' = PendingAfterNext
    /\ pc' = "getBlockByNumber"
    /\ emitted' = <<>>
    /\ calls' = <<>>
    /\ canonicalBlocks' = <<>>
    /\ depth' = 0
    /\ commonAncestorBlock' = NullBlock
    /\ newFinalizedBlock' = NullBlock
    /\ gapBatch' = GapAfterDequeue(task', "gap")
    /\ gapOnChain' = GapOnChainAfterDequeue
    /\ UNCHANGED <<phase, ctlVars, finalizedBlockNumber, blocks,
                   storeVars, rpcVars, failures>>

\* for (const block of [...missingBlocks, newBlockWithTransactions]) addTask
EnqueueAll(q, batch) == q \o batch

\* The fetched blocks and the task's block form a chain on top of the head.
FormChainOn(head, batch) ==
    /\ ParentHashOf(batch[1]) = head.hash
    /\ \A i \in 1..(Len(batch) - 1) : ParentHashOf(batch[i + 1]) = batch[i]

\* One eth_getBlockByNumber of the gap fill returned; after the last one, the
\* missing blocks and the task's own block are added to the queue.
GetBlockByNumberReturn ==
    /\ pc = "getBlockByNumber"
    /\ LET number == previousHeadBlock.number + 1 + Len(missingBlocks)
           block == BlockByNumber(number)
       IN  IF block = NoHash
           THEN \* "Failed to fetch block number"
                /\ Throw
                /\ UNCHANGED <<queue, missingBlocks, gapVars>>
           ELSE IF number < NumberOf(task) - 1
           THEN /\ missingBlocks' = Append(missingBlocks, block)
                /\ UNCHANGED <<queue, pc, emitted, gapVars>>
           ELSE /\ missingBlocks' = Append(missingBlocks, block)
                /\ queue' = EnqueueAll(queue, Append(missingBlocks, block) \o <<task>>)
                /\ pc' = "idle"
                /\ gapBatch' = IF FormChainOn(previousHeadBlock,
                                              Append(missingBlocks, block) \o <<task>>)
                               THEN Append(missingBlocks, block) \o <<task>>
                               ELSE <<>>
                /\ gapOnChain' = (/\ FormChainOn(previousHeadBlock,
                                         Append(missingBlocks, block) \o <<task>>)
                                  /\ \A i \in 1..Len(queue) : OnChainOf(queue[i], task))
                /\ UNCHANGED emitted
    /\ UNCHANGED <<phase, ctlVars, finalizedBlockNumber, blocks, task,
                   canonicalBlocks, depth, commonAncestorBlock, newFinalizedBlock,
                   filteredLogs, storeVars, rpcVars, calls, case, blocks0,
                   finalized0, failures>>

GetBlockByNumberFail ==
    /\ Fail("getBlockByNumber")
    /\ UNCHANGED <<svcVars, task, missingBlocks, canonicalBlocks, depth,
                   commonAncestorBlock, newFinalizedBlock, filteredLogs, storeVars,
                   rpcVars, calls, case, blocks0, finalized0>>

\* As TruncateToAncestor, keeping the whole local chain.
TruncateNothing(chain, ancestor) == chain

\* this.blocks.filter((block) => block.number <= commonAncestorBlock.number)
TruncateToAncestor(chain, ancestor) ==
    SelectSeq(chain, LAMBDA b : b.number <= ancestor.number)

\* One turn of the reconcile loop up to its next await. canon: the canonical
\* blocks fetched so far, oldest first; d: depth; em, cl: events and calls.
ReorgLoop(canon, d, em, cl, detectedAt) ==
    LET canonicalBlock == LightBlock(canon[1])
        ancestor == FindByHash(blocks, canonicalBlock.parentHash)
    IN  /\ canonicalBlocks' = canon
        /\ depth' = d
        /\ IF canonicalBlock.number > finalizedBlockNumber
           THEN IF ancestor # NullBlock
                THEN /\ commonAncestorBlock' = ancestor
                     /\ blocks' = TruncateToAncestor(blocks, ancestor)
                     /\ pc' = "deleteRealtimeData"
                     /\ calls' = Append(cl, DeleteRealtimeDataCall(ancestor.number + 1))
                     /\ emitted' = em
                ELSE /\ commonAncestorBlock' = NullBlock
                     /\ pc' = "getBlockByHash"
                     /\ calls' = cl
                     /\ emitted' = em
                     /\ UNCHANGED blocks
           ELSE \* 5) no common ancestor above the finalized block: deep reorg
                /\ commonAncestorBlock' = NullBlock
                /\ pc' = "idle"
                /\ calls' = cl
                /\ emitted' = Append(em, DeepReorg(detectedAt, d))
                /\ UNCHANGED blocks

\* 4) The block is on a fork of the local chain: start walking up its ancestors.
TaskReorg ==
    /\ \E h \in Hashes :
          /\ Dequeue(h, "reorg")
          /\ ReorgLoop(<<h>>, 0, <<>>, <<>>, NumberOf(h))
    /\ queue' = PendingAfterNext
    /\ newFinalizedBlock' = NullBlock
    /\ gapBatch' = GapAfterDequeue(task', "reorg")
    /\ gapOnChain' = GapOnChainAfterDequeue
    /\ UNCHANGED <<phase, ctlVars, finalizedBlockNumber, storeVars,
                   rpcVars, failures>>

\* eth_getBlockByHash(parentHash) returned: prepend the parent, go on.
GetBlockByHashReturn ==
    /\ pc = "getBlockByHash"
    /\ LET parentBlock == ParentHashOf(canonicalBlocks[1])
       IN  IF parentBlock = NoHash
           THEN \* "Failed to fetch parent block"
                /\ Throw
                /\ UNCHANGED <<blocks, canonicalBlocks, depth, commonAncestorBlock, calls>>
           ELSE ReorgLoop(<<parentBlock>> \o canonicalBlocks, depth + 1, emitted,
                          calls, NumberOf(task))
    /\ UNCHANGED <<phase, ctlVars, finalizedBlockNumber, queue, task,
                   missingBlocks, newFinalizedBlock, filteredLogs, storeVars, rpcVars,
                   case, blocks0, finalized0, gapVars, failures>>

GetBlockByHashFail ==
    /\ Fail("getBlockByHash")
    /\ UNCHANGED <<svcVars, task, missingBlocks, canonicalBlocks, depth,
                   commonAncestorBlock, newFinalizedBlock, filteredLogs, storeVars,
                   rpcVars, calls, case, blocks0, finalized0>>

\* As DeleteRealtimeDataReturn, going on without the delete having been done.
DeleteRealtimeDataNotAwaited ==
    /\ pc = "deleteRealtimeData"
    /\ queue' = canonicalBlocks
    /\ pc' = "addNewLatestBlock"
    /\ gapBatch' = <<>>
    /\ gapOnChain' = FALSE
    /\ UNCHANGED <<phase, ctlVars, finalizedBlockNumber, blocks, task,
                   missingBlocks, canonicalBlocks, depth, commonAncestorBlock,
                   newFinalizedBlock, filteredLogs, storeVars, rpcVars,
                   histVars, failures>>

\* deleteRealtimeData returned: clear the queue, add the canonical blocks, and
\* fetch a new latest block.
DeleteRealtimeDataReturn ==
    /\ pc = "deleteRealtimeData"
    /\ LET db == deleteRealtimeData(Tables, commonAncestorBlock.number + 1)
       IN  /\ storeBlocks' = db.blocks
           /\ storeTransactions' = db.transactions
           /\ storeLogs' = db.logs
    /\ queue' = canonicalBlocks
    /\ pc' = "addNewLatestBlock"
    /\ gapBatch' = <<>>
    /\ gapOnChain' = FALSE
    /\ UNCHANGED <<phase, ctlVars, finalizedBlockNumber, blocks, task,
                   missingBlocks, canonicalBlocks, depth, commonAncestorBlock,
                   newFinalizedBlock, filteredLogs, cachedIntervals, rpcVars,
                   histVars, failures>>

DeleteRealtimeDataFail ==
    /\ Fail("deleteRealtimeData")
    /\ UNCHANGED <<svcVars, task, missingBlocks, canonicalBlocks, depth,
                   commonAncestorBlock, newFinalizedBlock, filteredLogs, storeVars,
                   rpcVars, calls, case, blocks0, finalized0>>

\* The extra latest-block fetch returned: add it, emit shallowReorg.
AddNewLatestBlockReturn ==
    /\ pc = "addNewLatestBlock"
    /\ \E block \in LatestCandidates : queue' = addTask(queue, block)
    /\ emitted' = Append(emitted, ShallowReorg(commonAncestorBlock.timestamp))
    /\ pc' = "idle"
    /\ UNCHANGED <<phase, ctlVars, finalizedBlockNumber, blocks, task,
                   missingBlocks, canonicalBlocks, depth, commonAncestorBlock,
                   newFinalizedBlock, filteredLogs, storeVars, rpcVars, calls, case,
                   blocks0, finalized0, gapVars, failures>>

AddNewLatestBlockFail ==
    /\ Fail("addNewLatestBlock")
    /\ UNCHANGED <<svcVars, task, missingBlocks, canonicalBlocks, depth,
                   commonAncestorBlock, newFinalizedBlock, filteredLogs, storeVars,
                   rpcVars, calls, case, blocks0, finalized0>>

\* -------------------------------------------------------------------- runs
Next ==
    \/ Setup
    \/ Start
    \/ PollTick
    \/ RpcAdvance
    \/ TaskDuplicate
    \/ TaskNewHead
    \/ GetLogsReturn
    \/ GetLogsFail
    \/ InsertRealtimeBlockReturn
    \/ InsertRealtimeBlockFail
    \/ InsertRangesReturn
    \/ InsertRangesFail
    \/ TaskGap
    \/ GetBlockByNumberReturn
    \/ GetBlockByNumberFail
    \/ TaskReorg
    \/ GetBlockByHashReturn
    \/ GetBlockByHashFail
    \/ DeleteRealtimeDataReturn
    \/ DeleteRealtimeDataFail
    \/ AddNewLatestBlockReturn
    \/ AddNewLatestBlockFail

Spec == Init /\ [][Next]_vars

\* --------------------------------------------------------- scheduling
\* The steps of the single worker in which no request fails.
WorkerStep ==
    \/ TaskDuplicate
    \/ TaskNewHead
    \/ GetLogsReturn
    \/ InsertRealtimeBlockReturn
    \/ InsertRangesReturn
    \/ TaskGap
    \/ GetBlockByNumberReturn
    \/ TaskReorg
    \/ GetBlockByHashReturn
    \/ DeleteRealtimeDataReturn
    \/ AddNewLatestBlockReturn

\* The fork has two blocks.
InitFair == Init /\ forkAt = MaxNumber - 2

\* The caller runs setup() and start(); the queue's worker keeps taking tasks
\* and a pending request returns; the poll timer keeps firing.
SpecFair ==
    /\ InitFair
    /\ [][Next]_vars
    /\ WF_vars(Setup \/ Start \/ WorkerStep)
    /\ WF_vars(PollTick)

\* ------------------------------------------------------------ one chain
\* The endpoint never serves a block of a second chain.
InitSingleChain == Init /\ forkAt = MaxNumber - 1 /\ ChainOf(rpcHead) = 0

RpcAdvanceSameChain == RpcAdvance /\ ChainOf(rpcHead') = 0

\* The steps a run on one chain takes.
NextSingleChain ==
    \/ Setup
    \/ Start
    \/ PollTick
    \/ RpcAdvanceSameChain
    \/ TaskDuplicate
    \/ TaskNewHead
    \/ GetLogsReturn
    \/ GetLogsFail
    \/ InsertRealtimeBlockReturn
    \/ InsertRealtimeBlockFail
    \/ InsertRangesReturn
    \/ InsertRangesFail
    \/ TaskGap
    \/ GetBlockByNumberReturn
    \/ GetBlockByNumberFail
    \/ TaskReorg

SpecSingleChain == InitSingleChain /\ [][NextSingleChain]_vars

\* ------------------------------------------------- no finality distance
\* A network whose blocks are final at once: finalityBlockCount = 0.
InitZeroFinality ==
    /\ finalityBlockCount = 0
    /\ InitState
    /\ logFilterEndBlocks = NoEndBlocks
    /\ forkAt = MaxNumber - 2

SpecZeroFinality == InitZeroFinality /\ [][Next]_vars

\* ------------------------------------------------- start() and kill()
\* The end blocks a log filter can be configured with.
EndBlockConfigs == [1..Len(LogFilters) -> {NoEndBlock} \cup 1..MaxEndBlock]

\* Any configuration of end blocks; the two chains part after block 0.
InitLifecycle == InitService /\ logFilterEndBlocks \in EndBlockConfigs /\ forkAt = 0

\* kill(): stop the poller, pause and clear the queue. A poll that is fetching
\* the latest block and a task in flight are not interrupted.
Kill ==
    /\ phase \in {"setup", "started", "stopped"}
    /\ phase' = "killed"
    /\ queue' = <<>>
    /\ pollInFlight' \in (IF phase = "started" THEN BOOLEAN ELSE {FALSE})
    /\ gapBatch' = <<>>
    /\ gapOnChain' = FALSE
    /\ UNCHANGED <<finalityBlockCount, logFilterEndBlocks, setupResult,
                   finalizedBlockNumber, blocks, workerVars, storeVars, rpcVars,
                   histVars, failures>>

\* addNewLatestBlock() of a poll that began before kill(): the latest block
\* arrives and is added to the paused queue.
LatePollAdd ==
    /\ phase = "killed"
    /\ pollInFlight
    /\ pollInFlight' = FALSE
    /\ \E block \in LatestCandidates : queue' = addTask(queue, block)
    /\ UNCHANGED <<phase, finalityBlockCount, logFilterEndBlocks, setupResult,
                   finalizedBlockNumber, blocks, workerVars, storeVars, rpcVars,
                   histVars, gapVars, failures>>

\* The service from construction to kill(), with requests that do not fail.
NextLifecycle ==
    \/ Setup
    \/ Start
    \/ Kill
    \/ PollTick
    \/ LatePollAdd
    \/ RpcAdvance
    \/ TaskDuplicate
    \/ TaskNewHead
    \/ GetLogsReturn
    \/ InsertRealtimeBlockReturn
    \/ InsertRangesReturn
    \/ TaskGap
    \/ GetBlockByNumberReturn
    \/ TaskReorg
    \/ GetBlockByHashReturn
    \/ DeleteRealtimeDataReturn
    \/ AddNewLatestBlockReturn

SpecLifecycle == InitLifecycle /\ [][NextLifecycle]_vars

\* The intervals the inserts are drawn from.
IntervalInputs ==
    {CachedRange(key, a, b, t) : key \in LogFilterKeys,
        a \in 0..MaxIntervalBlock, b \in 0..MaxIntervalBlock, t \in 1..MaxIntervalStamp}

\* Arbitrary interval-merge inserts into the cache, the service not running.
InsertCachedInterval ==
    /\ \E key \in LogFilterKeys, startBlock \in 0..MaxIntervalBlock,
          endBlock \in 0..MaxIntervalBlock, endBlockTimestamp \in 1..MaxIntervalStamp :
          /\ startBlock <= endBlock
          /\ cachedIntervals' = insertCachedInterval(cachedIntervals,
                 CachedRange(key, startBlock, endBlock, endBlockTimestamp))
          /\ calls' = << InsertCachedIntervalCall(
                             CachedRange(key, startBlock, endBlock, endBlockTimestamp)) >>
    /\ UNCHANGED <<svcVars, workerVars, blockTables, rpcVars, emitted, case, blocks0,
                   finalized0, gapVars, failures>>

InsertLogFilterCachedRanges ==
    /\ \E startBlock \in 0..MaxIntervalBlock, endBlock \in 0..MaxIntervalBlock,
          endBlockTimestamp \in 1..MaxIntervalStamp :
          /\ startBlock <= endBlock
          /\ cachedIntervals' = insertLogFilterCachedRanges(cachedIntervals,
                 LogFilterKeys, startBlock, endBlock, endBlockTimestamp)
          /\ calls' = << InsertRangesCall(LogFilterKeys, startBlock, endBlock,
                                          endBlockTimestamp) >>
    /\ UNCHANGED <<svcVars, workerVars, blockTables, rpcVars, emitted, case, blocks0,
                   finalized0, gapVars, failures>>

InitIntervals == Init /\ forkAt = 0 /\ rpcHead = 0

NextIntervals == InsertCachedInterval \/ InsertLogFilterCachedRanges

SpecIntervals == InitIntervals /\ [][NextIntervals]_vars

\* The same inserts with no record of the call: the tables they reach.
MergeInterval ==
    /\ \E N \in IntervalInputs :
          /\ N.startBlock <= N.endBlock
          /\ cachedIntervals' = insertCachedInterval(cachedIntervals, N)
    /\ UNCHANGED <<svcVars, workerVars, blockTables, rpcVars, histVars, gapVars,
                   failures>>

MergeRanges ==
    /\ \E N \in IntervalInputs :
          /\ N.startBlock <= N.endBlock
          /\ cachedIntervals' = insertLogFilterCachedRanges(cachedIntervals,
                 LogFilterKeys, N.startBlock, N.endBlock, N.endBlockTimestamp)
    /\ UNCHANGED <<svcVars, workerVars, blockTables, rpcVars, histVars, gapVars,
                   failures>>

NextMerges == MergeInterval \/ MergeRanges

SpecMerges == InitIntervals /\ [][NextMerges]_vars

\* ------------------------------------------------------------------ claims
Events(type) == SelectSeq(emitted, LAMBDA e : e.type = type)
Calls(op) == SelectSeq(calls, LAMBDA c : c.op = op)

\* The last task ran to its end without throwing.
TaskCompleted(c) == pc = "idle" /\ case = c /\ Events("error") = <<>>

\* C1: once started, the local chain is never empty, its block numbers are
\* strictly ascending and each block's parentHash is the hash of the block
\* before it.
C1_LocalChainLinked ==
    phase = "started" =>
        /\ Len(blocks) > 0
        /\ \A i \in 1..(Len(blocks) - 1) :
              /\ blocks[i + 1].number > blocks[i].number
              /\ blocks[i + 1].parentHash = blocks[i].hash

\* A reconciled reorg has cut blocks off a local chain that keeps two or more.
C1_Witness ==
    /\ TaskCompleted("reorg")
    /\ Events("shallowReorg") # <<>>
    /\ Len(blocks) >= 2
    /\ Len(blocks) < Len(blocks0)

\* C2: finalizedBlockNumber never decreases, whatever step is taken (setup,
\* start, a task's step, a failed request).
C2_FinalizedMonotonic == [][finalizedBlockNumber' >= finalizedBlockNumber]_vars

\* A finality advance has moved finalizedBlockNumber.
C2_Witness ==
    /\ pc = "idle"
    /\ case = "newHead"
    /\ finalizedBlockNumber > finalized0

\* C3: whenever no block task is executing, the first block of the local chain
\* is the one numbered finalizedBlockNumber.
C3_FirstIsFinalized ==
    (phase = "started" /\ pc = "idle") => blocks[1].number = finalizedBlockNumber

C5_IntervalsFinalized ==
    \A r \in cachedIntervals : r.endBlock <= finalizedBlockNumber

\* The service has written a cached interval that ends at the finalized block.
C5_Witness ==
    /\ finalizedBlockNumber > 0
    /\ \E r \in cachedIntervals : r.endBlock = finalizedBlockNumber

\* C6: every stored log has its block stored, with the block's timestamp as
\* the log's blockTimestamp.
C6_LogsHaveBlocks ==
    \A log \in storeLogs :
        \E b \in storeBlocks :
            /\ b.hash = log.blockHash
            /\ log.blockTimestamp = b.timestamp

\* Logs are stored after a reorg deletion and after a later insertion.
C6_Witness ==
    /\ pc = "idle"
    /\ case = "newHead"
    /\ Calls("insertRealtimeBlock") # <<>>
    /\ \E log \in storeLogs : ChainOf(log.blockHash) = 1
    /\ \E log \in storeLogs : ChainOf(log.blockHash) = 0

\* The matched logs of a block and the transactions they name.
MatchedLogsOf(h) ==
    SelectSeq(LogsOf(h), LAMBDA l : l.address = "A" /\ l.topics[1] = "T")
ReferencedTransactionsOf(h) ==
    SelectSeq(TransactionsOf(h), LAMBDA t :
        \E i \in 1..Len(MatchedLogsOf(h)) : MatchedLogsOf(h)[i].transactionHash = t.hash)

\* C7 (state part): after a block B was handled as the new head,
\* insertRealtimeBlock was called once, with B, the transactions its matched
\* logs name and the matched logs, if B has matched logs, and not at all
\* otherwise; B is the last block of the local chain; exactly one
\* realtimeCheckpoint, with B's timestamp, was emitted.
C7_Accepted ==
    TaskCompleted("newHead") =>
        /\ Calls("insertRealtimeBlock") =
              IF "A" \in LogsBloomOf(task) /\ "T" \in LogsBloomOf(task)
                 /\ MatchedLogsOf(task) # <<>>
              THEN << InsertRealtimeBlockCall(task, ReferencedTransactionsOf(task),
                                              MatchedLogsOf(task)) >>
              ELSE <<>>
        /\ MatchedLogsOf(task) # <<>> =>
              /\ \E b \in storeBlocks : b.hash = task
              /\ \A i \in 1..Len(MatchedLogsOf(task)) :
                    \E r \in storeLogs : r.logId = MatchedLogsOf(task)[i].logId
              /\ \A i \in 1..Len(ReferencedTransactionsOf(task)) :
                    ReferencedTransactionsOf(task)[i] \in storeTransactions
        /\ blocks[Len(blocks)] = LightBlock(task)
        /\ Events("realtimeCheckpoint") = << RealtimeCheckpoint(TimestampOf(task)) >>

\* C7 (step part): no step of a new-head task that has not called
\* insertRealtimeBlock changes the log, block or transaction tables.
C7_NothingInserted ==
    (case' = "newHead" /\ SelectSeq(calls', LAMBDA c : c.op = "insertRealtimeBlock") = <<>>)
        => blockTables' = blockTables

\* C7: a new head block is inserted into the store iff the bloom pre-screen
\* passes and some log matches; either way it becomes the last block of the
\* local chain and one realtimeCheckpoint with its timestamp is emitted.
C7_NewHead == [](C7_Accepted) /\ [][C7_NothingInserted]_vars

\* A new head whose bloom passes while no log matches has been accepted.
C7_Witness ==
    /\ TaskCompleted("newHead")
    /\ "A" \in LogsBloomOf(task)
    /\ "T" \in LogsBloomOf(task)
    /\ MatchedLogsOf(task) = <<>>
    /\ storeBlocks # {}

\* The local chain as it was when the task began, with the task's block added.
FormerBlocks == Append(blocks0, LightBlock(task))

\* C8: after extend accepted B, with f and k the finalized block number and
\* the finality block count before: if B.number > f + 2k, the local chain is
\* its former blocks numbered >= f + k, insertLogFilterCachedRanges was called
\* once with f + 1, f + k and the timestamp of the local block f + k for all
\* filter keys, finalizedBlockNumber is f + k and finalityCheckpoint with that
\* timestamp was emitted; if B.number <= f + 2k, none of that happened.
C8_FinalityAdvance ==
    TaskCompleted("newHead") =>
        LET f == finalized0
            k == finalityBlockCount
            F == FindByNumber(FormerBlocks, f + k)
        IN  IF NumberOf(task) > f + 2 * k
            THEN /\ blocks = SelectSeq(FormerBlocks, LAMBDA b : b.number >= f + k)
                 /\ Calls("insertLogFilterCachedRanges") =
                       << InsertRangesCall(LogFilterKeys, f + 1, f + k, F.timestamp) >>
                 /\ \A key \in LogFilterKeys : \E r \in cachedIntervals :
                       /\ r.contractAddress = key
                       /\ r.startBlock <= f + 1
                       /\ r.endBlock = f + k
                       /\ r.endBlockTimestamp = F.timestamp
                 /\ finalizedBlockNumber = f + k
                 /\ Events("finalityCheckpoint") = << FinalityCheckpoint(F.timestamp) >>
            ELSE /\ blocks = FormerBlocks
                 /\ Calls("insertLogFilterCachedRanges") = <<>>
                 /\ finalizedBlockNumber = f
                 /\ Events("finalityCheckpoint") = <<>>

\* A block without matched logs has advanced finality for the second time.
C8_Witness ==
    /\ TaskCompleted("newHead")
    /\ MatchedLogsOf(task) = <<>>
    /\ finalized0 > 0
    /\ finalizedBlockNumber > finalized0

\* A step in which the worker takes a task from the queue.
TakesTask == pc = "idle" /\ Len(queue') < Len(queue)

\* A gap task never changes the local chain.
C9_ChainUnchanged == case = "gap" => blocks = blocks0

\* The step that ends a gap task whose fetches all succeeded adds, behind the
\* tasks already pending, one task for each number H.number+1 .. B.number,
\* in ascending order, the last one the task's own block B.
C9_Enqueued ==
    (pc = "getBlockByNumber" /\ pc' = "idle" /\ emitted' = emitted) =>
        LET H == blocks[Len(blocks)].number
            added == SubSeq(queue', Len(queue) + 1, Len(queue'))
        IN  /\ SubSeq(queue', 1, Len(queue)) = queue
            /\ Len(added) = NumberOf(task) - H
            /\ \A i \in 1..Len(added) : NumberOf(added[i]) = H + i
            /\ added[Len(added)] = task

\* What a step does to the blocks of a gap fill that formed a chain on top of
\* the head and are not all accepted yet: a block of the batch is taken only
\* in its turn and is then the new head; no pending block of the batch leaves
\* the queue otherwise; the step that appends the block emits the task's one
\* realtimeCheckpoint, that block's.
C9_BatchAccepted ==
    /\ (TakesTask /\ task' \in SeqToSet(gapBatch)) =>
           (task' = Head(gapBatch) /\ case' = "newHead")
    /\ \A i \in 1..Len(gapBatch) :
           gapBatch[i] \in SeqToSet(queue') \/ task' = gapBatch[i]
    /\ (case' = "newHead" /\ gapBatch' = Tail(gapBatch) /\ blocks' # blocks) =>
           /\ blocks'[Len(blocks')] = LightBlock(Head(gapBatch))
           /\ SelectSeq(emitted', LAMBDA e : e.type = "realtimeCheckpoint")
                  = <<RealtimeCheckpoint(TimestampOf(Head(gapBatch)))>>

RECURSIVE CommonAncestorFrom(_)
\* The block of the former local chain that is the parent of the first block,
\* walking up from h, numbered above the former finalized block number whose
\* parent is in that chain (NullBlock if the walk ends without one).
CommonAncestorFrom(h) ==
    IF NumberOf(h) <= finalized0 THEN NullBlock
    ELSE IF \E i \in 1..Len(blocks0) : blocks0[i].hash = ParentHashOf(h)
         THEN LightBlock(ParentHashOf(h))
         ELSE CommonAncestorFrom(ParentHashOf(h))

RECURSIVE CanonicalFrom(_, _)
\* The blocks from h up to, not including, the block hashed stop, oldest first.
CanonicalFrom(h, stop) ==
    IF h = stop \/ h = NoHash THEN <<>>
    ELSE Append(CanonicalFrom(ParentHashOf(h), stop), h)

IsPrefix(s, t) == Len(s) <= Len(t) /\ SubSeq(t, 1, Len(s)) = s

\* C10 (state part): after a Case 4 block B with a common ancestor A above
\* the finalized block was reconciled: the local chain is its former blocks
\* numbered <= A.number, deleteRealtimeData was called once, from A.number + 1,
\* the canonical blocks from A.number + 1 to B are pending in ascending order,
\* and shallowReorg with A's timestamp was emitted exactly once.
C10_Reconciled ==
    (TaskCompleted("reorg") /\ CommonAncestorFrom(task) # NullBlock) =>
        LET A == CommonAncestorFrom(task)
        IN  /\ blocks = SelectSeq(blocks0, LAMBDA b : b.number <= A.number)
            /\ calls = << DeleteRealtimeDataCall(A.number + 1) >>
            /\ \A r \in storeBlocks : r.number <= A.number
            /\ \A r \in storeLogs : r.blockNumber <= A.number
            /\ \A r \in storeTransactions : r.blockNumber <= A.number
            /\ IsPrefix(CanonicalFrom(task, A.hash), queue)
            /\ \A i \in 1..Len(CanonicalFrom(task, A.hash)) :
                  NumberOf(CanonicalFrom(task, A.hash)[i]) = A.number + i
            /\ emitted = << ShallowReorg(A.timestamp) >>

\* C10 (step part): when deleteRealtimeData returns, every task pending before
\* is dropped and exactly the canonical blocks are pending.
C10_QueueReplaced ==
    (pc = "deleteRealtimeData" /\ pc' = "addNewLatestBlock")
        => queue' = CanonicalFrom(task, commonAncestorBlock.hash)

\* C10: reconciling a shallow reorg truncates the local chain to the common
\* ancestor, deletes the realtime data above it, replaces the pending tasks by
\* the canonical blocks and emits shallowReorg once.
C10_ShallowReorg == [](C10_Reconciled) /\ [][C10_QueueReplaced]_vars

\* A reorg two or more blocks deep was reconciled, dropping stored rows and a
\* pending task.
C10_Witness ==
    /\ TaskCompleted("reorg")
    /\ CommonAncestorFrom(task) # NullBlock
    /\ Len(CanonicalFrom(task, CommonAncestorFrom(task).hash)) >= 2
    /\ Len(blocks0) >= Len(blocks) + 2

\* What a reorg task that found no common ancestor leaves behind, fetches being
\* the number of parent fetches it is to have made.
DeepReorgOutcome(fetches) ==
    /\ emitted = << [type |-> "deepReorg", detectedAtBlockNumber |-> NumberOf(task),
                     minimumDepth |-> fetches] >>
    /\ Len(canonicalBlocks) = fetches + 1
    /\ depth = fetches
    /\ blocks = blocks0
    /\ finalizedBlockNumber = finalized0
    /\ calls = <<>>

\* C11 as stated: a Case 4 block B none of whose ancestors above the
\* finalized block has its parent in the local chain is given up after exactly
\* B.number - finalizedBlockNumber parent fetches, with deepReorg{B.number,
\* that number of fetches}, the local chain, finalizedBlockNumber and the Event
\* Store unchanged.
C11_DeepReorgAsStated ==
    (TaskCompleted("reorg") /\ CommonAncestorFrom(task) = NullBlock) =>
        DeepReorgOutcome(NumberOf(task) - finalized0)

\* C11, amended (state part): the number of parent fetches, and minimumDepth,
\* is max(0, B.number - finalizedBlockNumber).
C11_Emitted ==
    (TaskCompleted("reorg") /\ CommonAncestorFrom(task) = NullBlock) =>
        DeepReorgOutcome(IF NumberOf(task) > finalized0
                         THEN NumberOf(task) - finalized0 ELSE 0)

\* C11 (step part): no step of a reorg task that does not find a common
\* ancestor changes the local chain, finalizedBlockNumber, the Event Store or
\* the pending tasks.
C11_Frame ==
    /\ (pc = "getBlockByHash" /\ pc' # "deleteRealtimeData"
           /\ (pc' # pc \/ canonicalBlocks' # canonicalBlocks)) =>
           UNCHANGED <<blocks, finalizedBlockNumber, queue, storeVars>>
    /\ (TakesTask /\ case' = "reorg" /\ pc' # "deleteRealtimeData") =>
           /\ UNCHANGED <<blocks, finalizedBlockNumber, storeVars>>
           /\ Len(queue') = Len(queue) - 1

\* C11, amended: the deep reorg's fetch count is max(0, B.number -
\* finalizedBlockNumber); the rest as stated.
C11_DeepReorg == [](C11_Emitted) /\ [][C11_Frame]_vars

\* A deep reorg was detected after two parent fetches, rows being stored.
C11_Witness ==
    /\ TaskCompleted("reorg")
    /\ CommonAncestorFrom(task) = NullBlock
    /\ depth >= 2
    /\ Len(blocks) >= 2

\* ------------------------------------------------- interval-merge claims
RowsOf(table, key) == {r \in table : r.contractAddress = key}

\* The block numbers a set of intervals covers.
CoveredBy(rows) == UNION {r.startBlock..r.endBlock : r \in rows}

\* The maximal runs of consecutive covered block numbers: what combining
\* overlapping or adjacent intervals, in any order, ends in.
MaximalRuns(rows) ==
    {run \in CoveredBy(rows) \X CoveredBy(rows) :
        /\ run[1] <= run[2]
        /\ \A n \in run[1]..run[2] : n \in CoveredBy(rows)
        /\ (run[1] - 1) \notin CoveredBy(rows)
        /\ (run[2] + 1) \notin CoveredBy(rows)}

\* rows is what the merge rule makes of the intervals in contributing.
IsMergeOf(rows, contributing) ==
    /\ {<<r.startBlock, r.endBlock>> : r \in rows} = MaximalRuns(contributing)
    /\ \A r1, r2 \in rows :
           (r1.startBlock = r2.startBlock /\ r1.endBlock = r2.endBlock) => r1 = r2
    /\ \A r \in rows : \E c \in contributing :
           /\ c.endBlock = r.endBlock
           /\ c.endBlockTimestamp = r.endBlockTimestamp
           /\ c.contractAddress = r.contractAddress

\* C12: for a single contract, inserting interval N into the stored set
\* yields exactly the intervals that combining overlapping or adjacent ones
\* ends in, each with the endBlockTimestamp of a contributing interval
\* (stored or new) with the same endBlock; the other contracts' rows stay.
C12_MergeRule ==
    \A N \in IntervalInputs :
        N.startBlock <= N.endBlock =>
            LET after == insertCachedInterval(cachedIntervals, N)
                key == N.contractAddress
            IN  /\ IsMergeOf(RowsOf(after, key), RowsOf(cachedIntervals, key) \cup {N})
                /\ after \ RowsOf(after, key) = cachedIntervals \ RowsOf(cachedIntervals, key)

\* An insert ended in an interval that reaches beyond the new one on both
\* sides and kept the timestamp of the stored interval it ends with.
C12_Witness ==
    /\ Len(calls) = 1
    /\ calls[1].op = "insertCachedInterval"
    /\ LET N == calls[1].interval
           rows == RowsOf(cachedIntervals, N.contractAddress)
       IN  \E r \in rows :
              /\ r.startBlock < N.startBlock
              /\ r.endBlock > N.endBlock
              /\ r.endBlockTimestamp # N.endBlockTimestamp
              /\ N.startBlock < N.endBlock

\* Every block number of N is in a stored interval of N's contract.
IsCovered(table, N) ==
    (N.startBlock..N.endBlock) \subseteq CoveredBy(RowsOf(table, N.contractAddress))

\* A stored interval of N's contract that ends where N ends has N's timestamp.
SameStampAtEnd(table, N) ==
    \A r \in RowsOf(table, N.contractAddress) :
        r.endBlock = N.endBlock => r.endBlockTimestamp = N.endBlockTimestamp

\* C13 as stated: the interval-merge insert of a range the stored intervals
\* of the contract already cover leaves the table, timestamps included,
\* unchanged.
C13_CoveredIsNoOp ==
    \A N \in IntervalInputs :
        (N.startBlock <= N.endBlock /\ IsCovered(cachedIntervals, N)) =>
            insertCachedInterval(cachedIntervals, N) = cachedIntervals

\* C13, amended: so it is when the covering interval does not end at the
\* range's endBlock with another endBlockTimestamp; in particular when the
\* same range is applied again, by insertCachedInterval or for every key by
\* insertLogFilterCachedRanges.
C13_Idempotent ==
    \A N \in IntervalInputs :
        N.startBlock <= N.endBlock =>
            LET once == insertCachedInterval(cachedIntervals, N)
                all == insertLogFilterCachedRanges(cachedIntervals, LogFilterKeys,
                           N.startBlock, N.endBlock, N.endBlockTimestamp)
            IN  /\ (IsCovered(cachedIntervals, N) /\ SameStampAtEnd(cachedIntervals, N))
                      => once = cachedIntervals
                /\ insertCachedInterval(once, N) = once
                /\ insertLogFilterCachedRanges(all, LogFilterKeys, N.startBlock,
                       N.endBlock, N.endBlockTimestamp) = all

\* The range just inserted lies inside a longer stored interval with another
\* timestamp, and inserting it again changes nothing.
C13_Witness ==
    /\ Len(calls) = 1
    /\ calls[1].op = "insertCachedInterval"
    /\ LET N == calls[1].interval
       IN  /\ IsCovered(cachedIntervals, N)
           /\ \E r \in RowsOf(cachedIntervals, N.contractAddress) :
                  /\ r.startBlock <= N.startBlock
                  /\ r.endBlock > N.endBlock
                  /\ r.endBlockTimestamp # N.endBlockTimestamp
           /\ insertCachedInterval(cachedIntervals, N) = cachedIntervals

\* X and Y are intervals of one contract that share a block number, each pair
\* taken once.
OverlappingPair(X, Y) ==
    /\ X.contractAddress = Y.contractAddress
    /\ X.startBlock <= X.endBlock
    /\ Y.startBlock <= Y.endBlock
    /\ Max2(X.startBlock, Y.startBlock) <= Min2(X.endBlock, Y.endBlock)
    /\ \/ X.startBlock < Y.startBlock
       \/ X.startBlock = Y.startBlock /\ X.endBlock < Y.endBlock
       \/ X.startBlock = Y.startBlock /\ X.endBlock = Y.endBlock
             /\ X.endBlockTimestamp < Y.endBlockTimestamp

OverlappingPairs ==
    {p \in IntervalInputs \X IntervalInputs : OverlappingPair(p[1], p[2])}

InsertedInOrder(X, Y) ==
    insertCachedInterval(insertCachedInterval(cachedIntervals, X), Y)

\* C14 as stated: for any stored intervals and any two overlapping intervals
\* X and Y, inserting X then Y ends in the same table as inserting Y then X.
C14_AnyOrder ==
    \A p \in OverlappingPairs :
        InsertedInOrder(p[1], p[2]) = InsertedInOrder(p[2], p[1])

\* C14, amended: so it is unless X and Y end at the same block with different
\* endBlockTimestamps.
C14_OrderIndependent ==
    \A p \in OverlappingPairs :
        (p[1].endBlock = p[2].endBlock => p[1].endBlockTimestamp = p[2].endBlockTimestamp)
            => InsertedInOrder(p[1], p[2]) = InsertedInOrder(p[2], p[1])

\* Two stored intervals of a contract, and two overlapping intervals with
\* different timestamps that join them into one in either order.
C14_Witness ==
    \E X, Y \in IntervalInputs :
        /\ <<X, Y>> \in OverlappingPairs
        /\ X.endBlock # Y.endBlock
        /\ X.endBlockTimestamp # Y.endBlockTimestamp
        /\ Cardinality(RowsOf(cachedIntervals, X.contractAddress)) = 2
        /\ Cardinality(RowsOf(InsertedInOrder(X, Y), X.contractAddress)) = 1
        /\ InsertedInOrder(X, Y) = InsertedInOrder(Y, X)
        /\ insertCachedInterval(cachedIntervals, X) # insertCachedInterval(cachedIntervals, Y)

\* ------------------------------------------------------ order of events
\* The events a step emits (a step that takes a task starts a new list).
NewEvents ==
    IF TakesTask THEN emitted'
    ELSE IF Len(emitted') > Len(emitted)
         THEN SubSeq(emitted', Len(emitted) + 1, Len(emitted'))
         ELSE <<>>

NewEventTypes == {NewEvents[i].type : i \in 1..Len(NewEvents)}

\* The step emits the realtimeCheckpoint of the block hashed h.
EmitsCheckpointOf(h) ==
    /\ task' = h
    /\ \E i \in 1..Len(NewEvents) :
          NewEvents[i] = [type |-> "realtimeCheckpoint", timestamp |-> TimestampOf(h)]

\* C15 as stated, for two tasks in a row: after a task for a block numbered
\* N + 1 emitted an event, the next task does not emit the realtimeCheckpoint
\* of a block numbered N.
C15_CheckpointBeforeNext ==
    [][(TakesTask /\ task # NoHash /\ NumberOf(task') + 1 = NumberOf(task)
          /\ \E i \in 1..Len(emitted) : emitted[i].type # "error")
       => ~EmitsCheckpointOf(task')]_vars

\* A block enters the local chain through start() or in the step that emits
\* its realtimeCheckpoint.
C15_ChainIsCheckpointed ==
    \A i \in 1..Len(blocks') :
        \/ \E j \in 1..Len(blocks) : blocks[j] = blocks'[i]
        \/ phase = "setup"
        \/ EmitsCheckpointOf(blocks'[i].hash)

\* The parent of the block is in the local chain already when the block's
\* realtimeCheckpoint or finalityCheckpoint is emitted.
C15_ParentFirst ==
    (NewEventTypes \cap {"realtimeCheckpoint", "finalityCheckpoint"} # {}) =>
        /\ case' = "newHead"
        /\ \E j \in 1..Len(blocks) :
              /\ blocks[j].hash = ParentHashOf(task')
              /\ blocks[j].number + 1 = NumberOf(task')

\* C15, amended: the realtimeCheckpoint of a block is emitted strictly before
\* the realtimeCheckpoint and the finalityCheckpoint of a block accepted on
\* top of it (the block start() seeds has none); shallowReorg and deepReorg
\* are emitted by the block that reveals the fork, before the blocks below
\* it on the new chain are accepted.
C15_EventOrder == [][C15_ChainIsCheckpointed /\ C15_ParentFirst]_vars

\* A block was accepted, with a finality advance, on top of a block that is
\* not the first of the local chain.
C15_Witness ==
    /\ TaskCompleted("newHead")
    /\ Len(blocks0) >= 2
    /\ Events("realtimeCheckpoint") # <<>>
    /\ Events("finalityCheckpoint") # <<>>

\* ------------------------------------------------------- order of tasks
\* C16 as stated, first half: each task the worker takes has a higher block
\* number than the task it took before.
C16_StrictlyAscending ==
    [][(TakesTask /\ task # NoHash) => NumberOf(task') > NumberOf(task)]_vars

\* C16, amended: whenever the worker takes a task, no pending task has a lower
\* block number (the numbers of the tasks taken one after another are not
\* ascending: a gap at block 4 above head 2 runs 4, 3, 4).
C16_LowestPendingFirst ==
    [][TakesTask =>
          /\ task' \in SeqToSet(queue)
          /\ \A i \in 1..Len(queue) : NumberOf(queue[i]) >= NumberOf(task')]_vars

\* A task was taken ahead of a higher block that was added before a pending
\* block of its own number.
C16_Witness ==
    /\ task # NoHash
    /\ \E i, j \in 1..Len(queue) :
          /\ i < j
          /\ NumberOf(queue[i]) > NumberOf(queue[j])
          /\ NumberOf(queue[j]) = NumberOf(task)
    /\ \A i \in 1..Len(queue) : NumberOf(queue[i]) >= NumberOf(task)
    /\ emitted # <<>>

\* ------------------------------------------------------------- life cycle
\* C17: setup() sets finalizedBlockNumber to max(0, latest.number -
\* finalityBlockCount), zero when finalityBlockCount exceeds latest.number and
\* never negative, enqueues the latest block and nothing else, leaves the queue
\* stopped (no task is taken, nothing is emitted, the local chain stays empty)
\* and returns the two numbers.
C17_SetupStep ==
    (phase = "constructed" /\ phase' = "setup") =>
        \E latestBlock \in LatestCandidates :
            /\ queue' = <<latestBlock>>
            /\ finalizedBlockNumber' =
                  (IF NumberOf(latestBlock) - finalityBlockCount > 0
                   THEN NumberOf(latestBlock) - finalityBlockCount ELSE 0)
            /\ (finalityBlockCount > NumberOf(latestBlock) => finalizedBlockNumber' = 0)
            /\ setupResult'.latestBlockNumber = NumberOf(latestBlock)
            /\ setupResult'.finalizedBlockNumber = finalizedBlockNumber'

C17_QueueNotStarted ==
    phase = "setup" =>
        /\ Len(queue) = 1
        /\ pc = "idle"
        /\ task = NoHash
        /\ blocks = <<>>
        /\ emitted = <<>>
        /\ finalizedBlockNumber >= 0

C17_Setup ==
    /\ [](C17_QueueNotStarted)
    /\ [][C17_SetupStep /\ (phase = "setup" => queue' = queue /\ task' = task)]_vars

\* setup() has returned with the finality block count above the latest block
\* number, and the endpoint has moved on since.
C17_Witness ==
    /\ phase = "setup"
    /\ finalityBlockCount > setupResult.latestBlockNumber
    /\ setupResult.finalizedBlockNumber = 0
    /\ NumberOf(rpcHead) > NumberOf(queue[1])

\* setup() has returned with a finalized block number above zero.
C17_WitnessAboveZero ==
    /\ phase = "setup"
    /\ setupResult.finalizedBlockNumber > 0

\* The step in which start() returns, given whether it is to return early.
StartReturns(early) ==
    (phase = "setup" /\ phase' \in {"stopped", "started"}) =>
        IF early
        THEN /\ phase' = "stopped"
             /\ blocks' = <<>>
             /\ queue' = queue
        ELSE /\ phase' = "started"
             /\ blocks' = <<LightBlock(AncestorAt(rpcHead, finalizedBlockNumber))>>
             /\ queue' = queue

\* After an early return nothing runs: no task is taken, no poll adds one.
StoppedIsQuiet ==
    phase = "stopped" => (pc = "idle" /\ task = NoHash /\ blocks = <<>> /\ Len(queue) = 1)

\* C18 as stated: start() returns early exactly when every log filter has an
\* endBlock at or below finalizedBlockNumber.
C18_StartAtOrBelow ==
    [][StartReturns(\A i \in 1..Len(LogFilters) :
                        /\ logFilterEndBlocks[i] # NoEndBlock
                        /\ logFilterEndBlocks[i] <= finalizedBlockNumber)]_vars

\* C18, amended: start() returns without seeding the local chain, starting the
\* queue or polling exactly when every log filter has an endBlock strictly
\* below finalizedBlockNumber; otherwise it seeds the local chain with the
\* light form of the block at finalizedBlockNumber, starts the queue and
\* begins polling.
C18_Start ==
    /\ [](StoppedIsQuiet)
    /\ [][StartReturns(\A i \in 1..Len(LogFilters) :
                          /\ logFilterEndBlocks[i] # NoEndBlock
                          /\ logFilterEndBlocks[i] < finalizedBlockNumber)]_vars

\* Every log filter ends at the finalized block: the service started, the
\* worker took the latest block and a poll added another.
C18_Witness ==
    /\ phase = "started"
    /\ \A i \in 1..Len(LogFilters) : logFilterEndBlocks[i] = finalized0
    /\ blocks0[1].number = finalized0
    /\ task # NoHash
    /\ queue # <<>>

\* start() returned early with every log filter ended below the finalized
\* block, and the endpoint has moved on.
C18_WitnessStopped ==
    /\ phase = "stopped"
    /\ \A i \in 1..Len(LogFilters) : logFilterEndBlocks[i] # NoEndBlock
    /\ NumberOf(rpcHead) > NumberOf(queue[1])

\* After kill(): no task begins.
C19_NoTaskBegins ==
    [][phase = "killed" => (task' = task /\ ~(pc = "idle" /\ pc' # "idle"))]_vars

\* After kill(): with no task in flight, nothing is added to the queue (only
\* a poll could add).
C19_NoPollEnqueues ==
    [][(phase = "killed" /\ pc = "idle") => queue' = queue]_vars

\* After kill(): the task in flight adds nothing to the queue.
C19_InFlightAddsNothing ==
    [][(phase = "killed" /\ pc # "idle" /\ pollInFlight' = pollInFlight)
          => Len(queue') <= Len(queue)]_vars

\* After kill(): once no task is in flight the queue is empty.
C19_QueueEmpty == (phase = "killed" /\ pc = "idle") => queue = <<>>

\* C19: after kill() returns no poll tick enqueues a further task and no block
\* task begins; once the task that was in flight has returned, the queue
\* holds no pending tasks.
C19_AfterKill ==
    /\ [](C19_QueueEmpty)
    /\ C19_NoTaskBegins
    /\ C19_NoPollEnqueues

\* ------------------------------------------------------------ convergence
\* A step of a stable endpoint: the tip stays, no request fails, and a fetch
\* of the latest block (by a poll or at the end of a reorg) returns the tip.
StableStep ==
    /\ rpcHead' = rpcHead
    /\ failures' = failures
    /\ (/\ phase = "started"
        /\ Len(queue') = Len(queue) + 1
        /\ (pc' = pc \/ pc = "addNewLatestBlock"))
          => queue'[Len(queue')] = rpcHead

\* The first block of the local chain is on the endpoint's chain.
FirstOnChain ==
    phase = "started" => AncestorAt(rpcHead, blocks[1].number) = blocks[1].hash

\* The local chain is the endpoint's chain from finalizedBlockNumber to the tip.
Converged ==
    /\ phase = "started"
    /\ blocks[Len(blocks)].hash = rpcHead
    /\ blocks[1].number = finalizedBlockNumber
    /\ Len(blocks) = NumberOf(rpcHead) - finalizedBlockNumber + 1
    /\ \A i \in 1..Len(blocks) : blocks[i] = LightBlock(AncestorAt(rpcHead, blocks[i].number))

\* C20: if from some point on the endpoint serves one fixed chain that
\* contains the first block of the local chain and no request fails, then
\* eventually the local chain is the endpoint's chain from
\* finalizedBlockNumber to the tip, and stays so.
C20_Converges ==
    (<>[][StableStep]_vars /\ <>[]FirstOnChain) => <>[]Converged

\* ------------------------------------------------------- failures and rows
\* The last task threw.
TaskFailed(c) == pc = "idle" /\ case = c /\ Events("error") # <<>>

\* C21: when a request or an Event Store call of a reorg reconciliation
\* failed, the local chain is as it was when the task began and no
\* deleteRealtimeData was issued.
C21_FailedReorgLeavesChain ==
    TaskFailed("reorg") =>
        /\ blocks = blocks0
        /\ Calls("deleteRealtimeData") = <<>>

\* ------------------------------------------------------------ the four cases
\* The rows of the table, for a block hashed B and the local chain.
RowDuplicate(B, chain) == \E i \in 1..Len(chain) : chain[i].hash = B
RowNewHead(B, chain) ==
    /\ ~RowDuplicate(B, chain)
    /\ NumberOf(B) = chain[Len(chain)].number + 1
    /\ ParentHashOf(B) = chain[Len(chain)].hash
RowGap(B, chain) ==
    /\ ~RowDuplicate(B, chain)
    /\ ~RowNewHead(B, chain)
    /\ NumberOf(B) > chain[Len(chain)].number + 1
RowReorg(B, chain) ==
    /\ NumberOf(B) <= chain[Len(chain)].number + 1
    /\ ~RowDuplicate(B, chain)
    /\ ~RowNewHead(B, chain)

RowsTaken(B, chain) ==
    (IF RowDuplicate(B, chain) THEN {"duplicate"} ELSE {})
        \cup (IF RowNewHead(B, chain) THEN {"newHead"} ELSE {})
        \cup (IF RowGap(B, chain) THEN {"gap"} ELSE {})
        \cup (IF RowReorg(B, chain) THEN {"reorg"} ELSE {})

\* What the worker does first in each case.
FirstStepOf(c) ==
    CASE c = "duplicate" -> pc' = "idle" /\ blocks' = blocks /\ emitted' = <<>>
      [] c = "newHead" ->
            \/ pc' \in {"getLogs", "insertRealtimeBlock", "insertLogFilterCachedRanges"}
            \/ pc' = "idle" /\ blocks'[Len(blocks')].hash = task'
      [] c = "gap" -> pc' = "getBlockByNumber" /\ blocks' = blocks
      [] c = "reorg" ->
            \/ pc' = "getBlockByHash" /\ blocks' = blocks
            \/ pc' = "deleteRealtimeData"
            \/ pc' = "idle" /\ emitted'[Len(emitted')].type = "deepReorg"

\* C22: for every dequeued block B and local head H exactly one row of the
\* table applies, and it is the case the worker takes: duplicate iff B.hash is
\* in the local chain; else new head iff B.number = H.number + 1 and
\* B.parentHash = H.hash; else gap iff B.number > H.number + 1; else reorg.
C22_OneCase ==
    [][TakesTask =>
          /\ RowsTaken(task', blocks) = {case'}
          /\ FirstStepOf(case')]_vars

\* A block numbered H.number + 1 whose parent is not H was taken as a reorg.
C22_Witness ==
    /\ case = "reorg"
    /\ task # NoHash
    /\ NumberOf(task) = blocks0[Len(blocks0)].number + 1
    /\ ParentHashOf(task) # blocks0[Len(blocks0)].hash

\* C23: processing a block whose hash is in the local chain is a no-op: the
\* local chain, finalizedBlockNumber, the pending tasks and the Event Store
\* stay as they are, no request is made (the task is over in the step that
\* takes it) and no event is emitted.
C23_DuplicateNoOp ==
    [][(TakesTask /\ RowDuplicate(task', blocks)) =>
          /\ blocks' = blocks
          /\ finalizedBlockNumber' = finalizedBlockNumber
          /\ \E i \in 1..Len(queue) :
                /\ queue[i] = task'
                /\ queue' = SubSeq(queue, 1, i - 1) \o SubSeq(queue, i + 1, Len(queue))
          /\ storeVars' = storeVars
          /\ pc' = "idle"
          /\ calls' = <<>>
          /\ emitted' = <<>>]_vars

\* A block below the head of a local chain of three blocks or more was taken
\* again, with rows in the Event Store and another task pending.
C23_Witness ==
    /\ pc = "idle"
    /\ case = "duplicate"
    /\ Len(blocks) >= 3
    /\ task # blocks[Len(blocks)].hash
    /\ storeBlocks # {}
    /\ queue # <<>>

\* ------------------------------------------------------------- one worker
\* While a task is suspended on a request no other task begins.
C24_OneTask ==
    pc # "idle" => (task' = task /\ case' = case /\ blocks0' = blocks0)

\* Once started, the local chain and finalizedBlockNumber change only in a
\* step of the executing task.
C24_OnlyWorkerWrites ==
    (phase = "started"
        /\ (blocks' # blocks \/ finalizedBlockNumber' # finalizedBlockNumber))
      => (TakesTask \/ (pc # "idle" /\ pc' # pc /\ task' = task))

\* A poll tick only adds a task.
C24_PollOnlyAdds ==
    (phase = "started" /\ pc' = pc /\ Len(queue') > Len(queue)) =>
        /\ \E block \in Hashes : queue' = Append(queue, block)
        /\ blocks' = blocks
        /\ finalizedBlockNumber' = finalizedBlockNumber
        /\ storeVars' = storeVars
        /\ task' = task

\* The local chain a resumed task appends to or truncates is the one it read
\* when it began.
C24_HeadStable ==
    (pc # "idle" /\ blocks' # blocks) => blocks = blocks0

\* C24: at most one block task executes at a time; the local chain and
\* finalizedBlockNumber are changed only by the executing task, poll ticks
\* only add tasks, and the head a task read when it began is still the head
\* when it appends to or truncates the local chain.
C24_SingleWorker ==
    [][C24_OneTask /\ C24_OnlyWorkerWrites /\ C24_PollOnlyAdds /\ C24_HeadStable]_vars

\* A block was appended after two awaits while another task was pending and
\* the endpoint had moved past it onto the other chain.
C24_Witness ==
    /\ TaskCompleted("newHead")
    /\ Calls("insertRealtimeBlock") # <<>>
    /\ blocks = FormerBlocks
    /\ queue # <<>>
    /\ ChainOf(rpcHead) # ChainOf(task)

\* ------------------------------------------------------ reorg and finality
\* The rows of blocks numbered n or less.
RowsUpTo(n) ==
    [blocks |-> {r \in storeBlocks : r.number <= n},
     transactions |-> {r \in storeTransactions : r.blockNumber <= n},
     logs |-> {r \in storeLogs : r.blockNumber <= n}]

C26_FromAboveFinalized ==
    \A i \in 1..Len(calls) :
        calls[i].op = "deleteRealtimeData" =>
            calls[i].fromBlockNumber > finalizedBlockNumber

C26_ReorgFrame ==
    /\ RowsUpTo(finalizedBlockNumber).blocks \subseteq storeBlocks'
    /\ RowsUpTo(finalizedBlockNumber).transactions \subseteq storeTransactions'
    /\ RowsUpTo(finalizedBlockNumber).logs \subseteq storeLogs'
    /\ case' = "reorg" =>
          /\ cachedIntervals' = cachedIntervals
          /\ finalizedBlockNumber' = finalizedBlockNumber

\* C26: every deleteRealtimeData call has fromBlockNumber above
\* finalizedBlockNumber; no step removes a block, transaction or log row of a
\* block at or below finalizedBlockNumber, and a reorg task changes neither
\* the cached intervals nor finalizedBlockNumber.
C26_DeleteAboveFinalized ==
    [](C26_FromAboveFinalized) /\ [][C26_ReorgFrame]_vars

\* A reorg was reconciled while the Event Store held rows of a block at or
\* below the finalized block and a cached interval.
C26_Witness ==
    /\ TaskCompleted("reorg")
    /\ Calls("deleteRealtimeData") # <<>>
    /\ \E r \in storeLogs : r.blockNumber <= finalizedBlockNumber
    /\ cachedIntervals # {}

InLocalChain(h) == \E i \in 1..Len(blocks) : blocks[i].hash = h

\* C27: whenever no block task is executing, every block, transaction and log
\* row of a block numbered above finalizedBlockNumber belongs to a block of
\* the local chain.
C27_NoOrphanRows ==
    pc = "idle" =>
        /\ \A r \in storeBlocks : r.number > finalizedBlockNumber => InLocalChain(r.hash)
        /\ \A r \in storeTransactions :
              r.blockNumber > finalizedBlockNumber => InLocalChain(r.blockHash)
        /\ \A r \in storeLogs :
              r.blockNumber > finalizedBlockNumber => InLocalChain(r.blockHash)

\* ------------------------------------------------------------ stale blocks
\* On one chain the reconcile loop never goes past its first test.
SingleChainNeverReconciles ==
    pc \notin {"getBlockByHash", "deleteRealtimeData", "addNewLatestBlock"}

\* C28: when every block the endpoint serves is on one chain, no shallowReorg
\* and no deepReorg is emitted and deleteRealtimeData is never called, also
\* when a poll returns a stale block below finalizedBlockNumber.
C28_NoReorgOnOneChain ==
    /\ Events("shallowReorg") = <<>>
    /\ Events("deepReorg") = <<>>
    /\ Calls("deleteRealtimeData") = <<>>

\* ------------------------------------------------------- finality advances
\* The step that looks up the target block of a finality advance and does
\* not find it: the block was appended and the task ended with an error.
TargetNotFound ==
    /\ Len(blocks') = Len(blocks) + 1
    /\ pc' = "idle"
    /\ Len(emitted') > 0
    /\ emitted'[Len(emitted')] = ErrorEvent

\* The step that emits finalityCheckpoint.
EmitsFinalityCheckpoint ==
    /\ pc = "insertLogFilterCachedRanges"
    /\ Len(emitted') = Len(emitted) + 1
    /\ emitted'[Len(emitted')].type = "finalityCheckpoint"

RangesWellFormed ==
    \A i \in 1..Len(calls) :
        calls[i].op = "insertLogFilterCachedRanges" => calls[i].startBlock <= calls[i].endBlock

\* C29: for every finalityBlockCount >= 0 a finality advance finds its target
\* block in the local chain, strictly increases finalizedBlockNumber and
\* writes a cached range with startBlock <= endBlock; finalityCheckpoint is
\* never emitted without finalizedBlockNumber having increased.
C29_FinalityAdvances ==
    /\ [](RangesWellFormed)
    /\ [][/\ ~TargetNotFound
          /\ EmitsFinalityCheckpoint => finalizedBlockNumber' > finalizedBlockNumber]_vars

\* ------------------------------------------------------ events after writes
\* The current task's block has logs that match a log filter.
TaskHasMatchedLogs == filterLogs(LogsOf(task'), LogFilters) # <<>>

\* realtimeCheckpoint of a block with matched logs: emitted by the step in
\* which insertRealtimeBlock returned, the block's row stored.
C30_CheckpointAfterInsert ==
    ("realtimeCheckpoint" \in NewEventTypes /\ TaskHasMatchedLogs) =>
        /\ pc = "insertRealtimeBlock"
        /\ failures' = failures
        /\ \E r \in storeBlocks' : r.hash = task'

\* finalityCheckpoint: emitted by the step in which
\* insertLogFilterCachedRanges returned, the range ending at the new
\* finalizedBlockNumber and every log filter key cached up to it.
C30_FinalityAfterRanges ==
    "finalityCheckpoint" \in NewEventTypes =>
        /\ pc = "insertLogFilterCachedRanges"
        /\ failures' = failures
        /\ calls[Len(calls)].op = "insertLogFilterCachedRanges"
        /\ calls[Len(calls)].endBlock = finalizedBlockNumber'
        /\ \A key \in LogFilterKeys :
              \E r \in cachedIntervals' :
                  /\ r.contractAddress = key
                  /\ r.startBlock <= calls[Len(calls)].startBlock
                  /\ r.endBlock >= finalizedBlockNumber'

\* shallowReorg: emitted after deleteRealtimeData returned, no block row
\* above the common ancestor left.
C30_ShallowAfterDelete ==
    "shallowReorg" \in NewEventTypes =>
        /\ pc = "addNewLatestBlock"
        /\ failures' = failures
        /\ Len(calls) > 0
        /\ calls[Len(calls)].op = "deleteRealtimeData"
        /\ \A r \in storeBlocks' : r.number < calls[Len(calls)].fromBlockNumber

\* A task whose write fails emits the error and not the write's event.
C30_FailedWriteIsSilent ==
    failures' > failures =>
        /\ NewEventTypes = {"error"}
        /\ pc = "insertRealtimeBlock" => Events("realtimeCheckpoint") = <<>>
        /\ pc = "insertLogFilterCachedRanges" => Events("finalityCheckpoint") = <<>>
        /\ pc = "deleteRealtimeData" => Events("shallowReorg") = <<>>

\* After its error a task emits nothing more.
C30_NothingAfterError ==
    (Events("error") # <<>> /\ ~TakesTask) => emitted' = emitted

\* C30: an event is emitted only after its Event Store write has completed:
\* realtimeCheckpoint of a block with matched logs after insertRealtimeBlock,
\* finalityCheckpoint after insertLogFilterCachedRanges ending at the new
\* finalized block, shallowReorg after deleteRealtimeData; a task whose write
\* fails does not emit that event.
C30_EventsAfterWrites ==
    [][/\ C30_CheckpointAfterInsert
       /\ C30_FinalityAfterRanges
       /\ C30_ShallowAfterDelete
       /\ C30_FailedWriteIsSilent
       /\ C30_NothingAfterError]_vars

\* A task that stored its block, emitted realtimeCheckpoint, wrote the cached
\* ranges and emitted finalityCheckpoint.
C30_Witness ==
    /\ TaskCompleted("newHead")
    /\ Calls("insertRealtimeBlock") # <<>>
    /\ Calls("insertLogFilterCachedRanges") # <<>>
    /\ Events("realtimeCheckpoint") # <<>>
    /\ Events("finalityCheckpoint") # <<>>

\* A task that deleted the forked rows and emitted shallowReorg.
C30_WitnessReorg ==
    /\ TaskCompleted("reorg")
    /\ Calls("deleteRealtimeData") # <<>>
    /\ Events("shallowReorg") # <<>>

\* A task whose insertRealtimeBlock failed.
C30_WitnessFailed ==
    /\ TaskFailed("newHead")
    /\ Len(calls) = 1
    /\ calls[1].op = "insertRealtimeBlock"
    /\ storeBlocks = {}

====
